---- MODULE Spec2Model ----
(***************************************************************************)
(* Model of the catalogue REST API in src/app.py: the five tables          *)
(* (categories, products, clients, orders, order_products), the request    *)
(* handlers that write them, and the handlers' responses.                  *)
(*                                                                         *)
(* Spec      every request runs to completion before the next one starts.  *)
(* SpecConc  two worker threads run handlers whose queries and commit are  *)
(*           separate steps (FastAPI runs "def" handlers in a threadpool,  *)
(*           each with its own Session on the shared SQLite file).         *)
(***************************************************************************)
EXTENDS Integers, Sequences, FiniteSets, TLC

VARIABLES categories, products, clients, orders, order_products, last, thr

store == <<categories, products, clients, orders, order_products>>
vars == <<categories, products, clients, orders, order_products, last, thr>>

(* ------------------------------ bounds -------------------------------- *)
MaxCategories == 1
MaxProducts == 1
MaxClients == 2
MaxOrders == 2
MaxLen == 2

Names == {"n"}
Prices == {999}
Emails == {"a@x.com", "b@x.com"}
Passwords == {"p"}
Threads == {1, 2}

\* ids a request may name: every id a row can have, and one no row ever has
CategoryIds == 1 .. (MaxCategories + 1)
ProductIds == 1 .. (MaxProducts + 1)
ClientIds == 1 .. (MaxClients + 1)
OrderIds == 1 .. (MaxOrders + 1)

RECURSIVE SeqsUpTo(_, _)
SeqsUpTo(S, n) ==
    IF n = 0 THEN {<<>>}
    ELSE LET shorter == SeqsUpTo(S, n - 1)
         IN shorter \cup {Append(s, x) : s \in {q \in shorter : Len(q) = n - 1}, x \in S}

\* product_ids of a request, repeated ids included.  create_order reads the
\* list only through in_() and len(), so one ordering of each list is enough.
ProductIdLists ==
    {s \in SeqsUpTo(ProductIds, MaxLen) : \A i \in 1 .. (Len(s) - 1) : s[i] <= s[i + 1]}

(* ------------------------------ helpers ------------------------------- *)
Range(s) == {s[i] : i \in 1 .. Len(s)}

MaxOf(S) == CHOOSE m \in S : \A x \in S : x <= m

\* Column(Integer, primary_key=True) on SQLite is the rowid: the next id is
\* one more than the largest id present, 1 for an empty table.
NextId(rows) == IF rows = {} THEN 1 ELSE MaxOf({r.id : r \in rows}) + 1

\* db.query(M).filter(M.id == id).first(): the empty set stands for None
first(rows, id) == {r \in rows : r.id = id}

Client_orders_none(client_id) == {}
\* relationship loads
Client_orders(client_id) == {o \in orders : o.client_id = client_id}
Orders_products(order_id) == {p \in products : <<order_id, p.id>> \in order_products}
Product_orders(product_id) == {o \in orders : <<o.id, product_id>> \in order_products}

email_unique_off(rows, email) == TRUE
\* Client.email is unique=True
email_unique(rows, email) == \A c \in rows : c.email # email

len_matches_any(db_products, product_ids) ==
    db_products # {} \/ Len(product_ids) = 0
\* len(db_products) != len(order.product_ids) is the "not found" condition
len_matches(db_products, product_ids) ==
    Cardinality(db_products) = Len(product_ids)

\* response models
CategoryCreate(c) == [name |-> c.name]
ProductOut(p) == [id |-> p.id, name |-> p.name, price |-> p.price]
ClientOut(c) == [id |-> c.id, name |-> c.name, email |-> c.email]
OrderOut(o, cs, ps, ops) ==
    [id |-> o.id,
     client |-> {ClientOut(c) : c \in first(cs, o.client_id)},
     products |-> {ProductOut(p) : p \in {q \in ps : <<o.id, q.id>> \in ops}}]

\* The outcome of the latest request: the handler that ran, the HTTP status,
\* the error detail, the response body (a set: empty when there is none) and
\* the numbers of orders and order_products rows its commit deleted.
Response(op, status, detail, body, deleted) ==
    [op |-> op, status |-> status, detail |-> detail, body |-> body,
     deleted |-> deleted]
None == <<0, 0>>

\* a worker thread that is running no handler
Idle == [pc |-> "idle", obj |-> {}, rows |-> {}]

(* ------------------------------- Init --------------------------------- *)
\* Base.metadata.create_all on a new database file: empty tables
Init ==
    /\ categories = {}
    /\ products = {}
    /\ clients = {}
    /\ orders = {}
    /\ order_products = {}
    /\ last = Response("none", 0, "", {}, None)
    /\ thr = [t \in Threads |-> Idle]

(* ------------------------- create handlers ---------------------------- *)
create_category(name) ==
    LET db_category == [id |-> NextId(categories), name |-> name]
    IN /\ db_category.id <= MaxCategories
       /\ categories' = categories \cup {db_category}
       /\ last' = Response("create_category", 201, "", {CategoryCreate(db_category)}, None)
       /\ UNCHANGED <<products, clients, orders, order_products, thr>>

create_product_unchecked(name, price, category_id) ==
    LET db_product == [id |-> NextId(products), name |-> name, price |-> price,
                       category_id |-> category_id]
    IN /\ db_product.id <= MaxProducts
       /\ products' = products \cup {db_product}
       /\ last' = Response("create_product", 201, "", {ProductOut(db_product)}, None)
       /\ UNCHANGED <<categories, clients, orders, order_products, thr>>

create_product(name, price, category_id) ==
    LET category == first(categories, category_id)
        db_product == [id |-> NextId(products), name |-> name, price |-> price,
                       category_id |-> category_id]
    IN IF category = {}
       THEN /\ last' = Response("create_product", 404, "Category not found", {}, None)
            /\ UNCHANGED <<store, thr>>
       ELSE /\ db_product.id <= MaxProducts
            /\ products' = products \cup {db_product}
            /\ last' = Response("create_product", 201, "", {ProductOut(db_product)}, None)
            /\ UNCHANGED <<categories, clients, orders, order_products, thr>>

\* The INSERT of a second row with the same email fails at db.commit() with
\* IntegrityError, which the handler does not catch: the response is a 500 and
\* the transaction is rolled back when get_db closes the session.
create_client(name, email, password) ==
    LET db_client == [id |-> NextId(clients), name |-> name, email |-> email,
                      password |-> password]
    IN IF ~email_unique(clients, email)
       THEN /\ last' = Response("create_client", 500, "IntegrityError", {}, None)
            /\ UNCHANGED <<store, thr>>
       ELSE /\ db_client.id <= MaxClients
            /\ clients' = clients \cup {db_client}
            /\ last' = Response("create_client", 201, "", {ClientOut(db_client)}, None)
            /\ UNCHANGED <<categories, products, orders, order_products, thr>>

\* db.add(db_order); db.commit() of create_order, given the instances the
\* handler loaded: one orders row and one order_products row per loaded
\* product.  (order_id, product_id) is the primary key of order_products, so a
\* row that is already there fails the INSERT and the commit.  OrderOut needs
\* the order's client: when that row is gone the response cannot be built.
create_order_commit(db_client, db_products) ==
    LET db_order == [id |-> NextId(orders), client_id |-> db_client.id]
        rows == {<<db_order.id, p.id>> : p \in db_products}
        \* db.refresh(db_order) and the response model read the committed rows
        out == OrderOut(db_order, clients, products, order_products \cup rows)
    IN IF rows \cap order_products # {}
       THEN /\ last' = Response("create_order", 500, "IntegrityError", {}, None)
            /\ UNCHANGED store
       ELSE /\ db_order.id <= MaxOrders
            /\ orders' = orders \cup {db_order}
            /\ order_products' = order_products \cup rows
            /\ last' = IF out.client = {}
                       THEN Response("create_order", 500, "ResponseValidationError",
                                     {}, None)
                       ELSE Response("create_order", 201, "", {out}, None)
            /\ UNCHANGED <<categories, products, clients>>

create_order(client_id, product_ids) ==
    LET db_client == first(clients, client_id)
        \* Product.id.in_(product_ids): one row per matching product
        db_products == {p \in products : p.id \in Range(product_ids)}
    IN /\ IF db_client = {}
          THEN /\ last' = Response("create_order", 404, "Client not found", {}, None)
               /\ UNCHANGED store
          ELSE IF ~len_matches(db_products, product_ids)
          THEN /\ last' = Response("create_order", 404,
                                   "One or more products not found", {}, None)
               /\ UNCHANGED store
          ELSE \E c \in db_client : create_order_commit(c, db_products)
       /\ UNCHANGED thr

(* --------------------------- read handlers ---------------------------- *)
\* the response of GET /api/orders/{order_id} against the given tables
get_order_response(os, cs, ps, ops, order_id) ==
    LET order == first(os, order_id)
    IN IF order = {}
       THEN Response("get_order", 404, "Order not found", {}, None)
       ELSE Response("get_order", 200, "", {OrderOut(o, cs, ps, ops) : o \in order}, None)

get_order(order_id) ==
    /\ last' = get_order_response(orders, clients, products, order_products, order_id)
    /\ UNCHANGED <<store, thr>>

(* ------------------------- delete handlers ---------------------------- *)
\* Every delete handler calls db.refresh() on the instance it has just deleted
\* and committed; refresh of an instance that is no longer persistent raises
\* InvalidRequestError, which is not caught, so the response is a 500.
\* A DELETE by primary key that matches no row (the row went away after the
\* handler loaded it) fails the flush with StaleDataError and nothing is
\* committed.

\* db.delete(order); db.commit(): the flush loads Orders.products and deletes
\* the order_products rows of the loaded products, then the orders row.
delete_order_commit(order_id) ==
    LET rows == {<<order_id, p.id>> : p \in Orders_products(order_id)}
    IN IF first(orders, order_id) = {}
       THEN /\ last' = Response("delete_order", 500, "StaleDataError", {}, None)
            /\ UNCHANGED store
       ELSE /\ orders' = {o \in orders : o.id # order_id}
            /\ order_products' = order_products \ rows
            /\ last' = Response("delete_order", 500, "InvalidRequestError", {},
                                <<1, Cardinality(rows)>>)
            /\ UNCHANGED <<categories, products, clients>>

delete_order_cascade(order_id) ==
    IF first(orders, order_id) = {}
    THEN /\ last' = Response("delete_order", 404, "Order not found", {}, None)
         /\ UNCHANGED <<store, thr>>
    ELSE /\ orders' = {o \in orders : o.id # order_id}
         /\ products' = products \ Orders_products(order_id)
         /\ order_products' = {op \in order_products : op[1] # order_id}
         /\ last' = Response("delete_order", 500, "InvalidRequestError", {},
                             <<1, Cardinality(Orders_products(order_id))>>)
         /\ UNCHANGED <<categories, clients, thr>>

\* (the handler is defined twice, with the same body on the same route)
delete_order(order_id) ==
    /\ IF first(orders, order_id) = {}
       THEN /\ last' = Response("delete_order", 404, "Order not found", {}, None)
            /\ UNCHANGED store
       ELSE delete_order_commit(order_id)
    /\ UNCHANGED thr

\* db.delete(product); db.commit(): the flush loads Product.orders and deletes
\* the order_products rows of the loaded orders, then the products row.  The
\* relationship has no delete cascade: the orders stay.
delete_product_commit(product_id) ==
    LET rows == {<<o.id, product_id>> : o \in Product_orders(product_id)}
    IN IF first(products, product_id) = {}
       THEN /\ last' = Response("delete_product", 500, "StaleDataError", {}, None)
            /\ UNCHANGED store
       ELSE /\ products' = {p \in products : p.id # product_id}
            /\ order_products' = order_products \ rows
            /\ last' = Response("delete_product", 500, "InvalidRequestError", {},
                                <<0, Cardinality(rows)>>)
            /\ UNCHANGED <<categories, clients, orders>>

delete_product(product_id) ==
    /\ IF first(products, product_id) = {}
       THEN /\ last' = Response("delete_product", 404, "Product not found", {}, None)
            /\ UNCHANGED store
       ELSE delete_product_commit(product_id)
    /\ UNCHANGED thr

\* db.commit() of delete_client.  Client.orders has cascade="all,
\* delete-orphan": db.delete(client) loads the client's orders and marks them
\* deleted (cascaded); the flush deletes each of them as delete_order does,
\* then the clients row.
delete_client_commit(client_id, cascaded) ==
    LET ids == {o.id : o \in cascaded}
        rows == UNION {{<<o.id, p.id>> : p \in Orders_products(o.id)} : o \in cascaded}
    IN IF first(clients, client_id) = {} \/ \E i \in ids : first(orders, i) = {}
       THEN /\ last' = Response("delete_client", 500, "StaleDataError", {}, None)
            /\ UNCHANGED store
       ELSE /\ clients' = {c \in clients : c.id # client_id}
            /\ orders' = {o \in orders : o.id \notin ids}
            /\ order_products' = order_products \ rows
            /\ last' = Response("delete_client", 500, "InvalidRequestError", {},
                                <<Cardinality(ids), Cardinality(rows)>>)
            /\ UNCHANGED <<categories, products>>

delete_client(client_id) ==
    /\ IF first(clients, client_id) = {}
       THEN /\ last' = Response("delete_client", 404, "Client not found", {}, None)
            /\ UNCHANGED store
       ELSE delete_client_commit(client_id, Client_orders(client_id))
    /\ UNCHANGED thr

\* DELETE /api/categories/{category_id}: the application registers only GET on
\* this path (and POST on the collection), so the router answers 405 and no
\* handler runs.
delete_category(category_id) ==
    /\ last' = Response("delete_category", 405, "Method Not Allowed", {}, None)
    /\ UNCHANGED <<store, thr>>

Next ==
    \/ \E n \in Names : create_category(n)
    \/ \E n \in Names, pr \in Prices, c \in CategoryIds : create_product(n, pr, c)
    \/ \E n \in Names, e \in Emails, pw \in Passwords : create_client(n, e, pw)
    \/ \E c \in ClientIds, ids \in ProductIdLists : create_order(c, ids)
    \/ \E o \in OrderIds : get_order(o)
    \/ \E o \in OrderIds : delete_order(o)
    \/ \E p \in ProductIds : delete_product(p)
    \/ \E c \in ClientIds : delete_client(c)
    \/ \E c \in CategoryIds : delete_category(c)

Spec == Init /\ [][Next]_vars

(* --------------------- handlers on worker threads --------------------- *)
\* FastAPI runs a "def" handler in a threadpool, and get_db gives each request
\* a Session of its own on the shared database file.  A handler's queries and
\* its commit are separate statements: the queries are one step of the thread
\* here and the commit another, and the steps of two threads interleave.  The tables have ForeignKey
\* columns, but the engine never turns SQLite's foreign_keys pragma on, so the
\* database does not check them at commit.

Goto(t, pc, obj, rows) ==
    thr' = [thr EXCEPT ![t] = [pc |-> pc, obj |-> obj, rows |-> rows]]
Done(t) == thr' = [thr EXCEPT ![t] = Idle]

\* create_order: the two existence queries, then db.add and db.commit
t_create_order_query(t, client_id, product_ids) ==
    LET db_client == first(clients, client_id)
        db_products == {p \in products : p.id \in Range(product_ids)}
    IN /\ thr[t].pc = "idle"
       /\ IF db_client = {}
          THEN /\ last' = Response("create_order", 404, "Client not found", {}, None)
               /\ UNCHANGED thr
          ELSE IF ~len_matches(db_products, product_ids)
          THEN /\ last' = Response("create_order", 404,
                                   "One or more products not found", {}, None)
               /\ UNCHANGED thr
          ELSE /\ Goto(t, "create_order_commit", db_client, db_products)
               /\ UNCHANGED last
       /\ UNCHANGED store

t_create_order_commit(t) ==
    /\ thr[t].pc = "create_order_commit"
    /\ \E c \in thr[t].obj : create_order_commit(c, thr[t].rows)
    /\ Done(t)

\* delete_order: the query, then db.delete and db.commit
t_delete_order_query(t, order_id) ==
    LET order == first(orders, order_id)
    IN /\ thr[t].pc = "idle"
       /\ IF order = {}
          THEN /\ last' = Response("delete_order", 404, "Order not found", {}, None)
               /\ UNCHANGED thr
          ELSE /\ Goto(t, "delete_order_commit", order, {})
               /\ UNCHANGED last
       /\ UNCHANGED store

t_delete_order_commit(t) ==
    /\ thr[t].pc = "delete_order_commit"
    /\ \E o \in thr[t].obj : delete_order_commit(o.id)
    /\ Done(t)

\* delete_product: the query, then db.delete and db.commit
t_delete_product_query(t, product_id) ==
    LET product == first(products, product_id)
    IN /\ thr[t].pc = "idle"
       /\ IF product = {}
          THEN /\ last' = Response("delete_product", 404, "Product not found", {}, None)
               /\ UNCHANGED thr
          ELSE /\ Goto(t, "delete_product_commit", product, {})
               /\ UNCHANGED last
       /\ UNCHANGED store

t_delete_product_commit(t) ==
    /\ thr[t].pc = "delete_product_commit"
    /\ \E p \in thr[t].obj : delete_product_commit(p.id)
    /\ Done(t)

\* delete_client: the query and db.delete, which loads the orders it cascades
\* to, then db.commit
t_delete_client_query(t, client_id) ==
    LET client == first(clients, client_id)
    IN /\ thr[t].pc = "idle"
       /\ IF client = {}
          THEN /\ last' = Response("delete_client", 404, "Client not found", {}, None)
               /\ UNCHANGED thr
          ELSE /\ Goto(t, "delete_client_commit", client, Client_orders(client_id))
               /\ UNCHANGED last
       /\ UNCHANGED store

t_delete_client_commit(t) ==
    /\ thr[t].pc = "delete_client_commit"
    /\ \E c \in thr[t].obj : delete_client_commit(c.id, thr[t].rows)
    /\ Done(t)

NextConc ==
    \/ \E n \in Names : create_category(n)
    \/ \E n \in Names, pr \in Prices, c \in CategoryIds : create_product(n, pr, c)
    \/ \E n \in Names, e \in Emails, pw \in Passwords : create_client(n, e, pw)
    \/ \E t \in Threads, c \in ClientIds, ids \in ProductIdLists :
          t_create_order_query(t, c, ids)
    \/ \E t \in Threads : t_create_order_commit(t)
    \/ \E t \in Threads, o \in OrderIds : t_delete_order_query(t, o)
    \/ \E t \in Threads : t_delete_order_commit(t)
    \/ \E t \in Threads, p \in ProductIds : t_delete_product_query(t, p)
    \/ \E t \in Threads : t_delete_product_commit(t)
    \/ \E t \in Threads, c \in ClientIds : t_delete_client_query(t, c)
    \/ \E t \in Threads : t_delete_client_commit(t)

SpecConc == Init /\ [][NextConc]_vars

(* ----------------------------- properties ----------------------------- *)
\* C10: with the handlers' steps interleaved, every order's client_id is the
\* id of a client and every order_products row names an order and a product.
C10_ReferentialIntegrity ==
    /\ \A o \in orders : first(clients, o.client_id) # {}
    /\ \A op \in order_products : first(orders, op[1]) # {} /\ first(products, op[2]) # {}

\* C1: a create_order request whose product id list names an id that is no
\* product's id is answered 404 and leaves orders and order_products as they
\* were: a create_order step that does anything else comes only from requests
\* all of whose ids resolve.
C1_MissingProductRejects ==
    [][last'.op = "create_order" =>
         \/ /\ last'.status = 404
            /\ orders' = orders
            /\ order_products' = order_products
         \/ \A c \in ClientIds, ids \in ProductIdLists :
               create_order(c, ids) => \A i \in Range(ids) : first(products, i) # {}]_vars

\* a product id list was refused while no product existed (so every id it
\* named was unresolved), for an existing client
C1_Witness ==
    /\ last.op = "create_order"
    /\ last.status = 404
    /\ last.detail = "One or more products not found"
    /\ products = {}
    /\ clients # {}

\* C2: create_order answers 404 only for a missing client or an unresolved
\* product id; otherwise (repeated ids included) it adds exactly one order of
\* that client whose order_products rows are the requested ids.
C2_CreatesUnlessMissing ==
    [][last'.op = "create_order" =>
         \A c \in ClientIds, ids \in ProductIdLists :
            (/\ create_order(c, ids)
             /\ first(clients, c) # {}
             /\ \A i \in Range(ids) : first(products, i) # {})
            => /\ last'.status = 201
               /\ \E o \in orders' \ orders :
                     /\ orders' = orders \cup {o}
                     /\ o.client_id = c
                     /\ order_products' =
                            order_products \cup {<<o.id, i>> : i \in Range(ids)}]_vars

\* C3: create_product with a category_id that is no category's id is answered
\* 404 and leaves products as it was, and after any create_product every
\* product's category_id is the id of a category.
C3_ProductNeedsCategory ==
    [][last'.op = "create_product" =>
         \A n \in Names, pr \in Prices, c \in CategoryIds :
            create_product(n, pr, c)
            => /\ first(categories, c) = {}
                  => (last'.status = 404 /\ products' = products)
               /\ \A p \in products' : first(categories', p.category_id) # {}]_vars

\* a create_product was refused for its category while a product exists
C3_Witness ==
    /\ last.op = "create_product"
    /\ last.status = 404
    /\ last.detail = "Category not found"
    /\ products # {}

\* C4: no two clients share an email, and create_client with the email of an
\* existing client fails on the unique constraint and adds no row.
C4_EmailUnique ==
    [][/\ \A a, b \in clients' : a.email = b.email => a = b
       /\ last'.op = "create_client" =>
            \A n \in Names, e \in Emails, pw \in Passwords :
               (create_client(n, e, pw) /\ \E c \in clients : c.email = e)
               => /\ last'.status >= 400
                  /\ last'.detail = "IntegrityError"
                  /\ clients' = clients]_vars

\* a create_client was refused for its email and one client has it
C4_Witness ==
    /\ last.op = "create_client"
    /\ last.detail = "IntegrityError"
    /\ \E e \in Emails : Cardinality({c \in clients : c.email = e}) = 1

\* C5: delete_client of an existing client removes the client, every order of
\* that client (get_order of it answers 404) and every order_products row of
\* those orders.
C5_ClientCascade ==
    [][last'.op = "delete_client" =>
         \A c \in ClientIds :
            (delete_client(c) /\ first(clients, c) # {})
            => /\ first(clients', c) = {}
               /\ \A o \in orders : o.client_id = c =>
                     /\ get_order_response(orders', clients', products',
                                           order_products', o.id).status = 404
                     /\ \A op \in order_products' : op[1] # o.id]_vars

\* a delete_client took an order and an order_products row with it
C5_Witness ==
    /\ last.op = "delete_client"
    /\ last.deleted[1] >= 1
    /\ last.deleted[2] >= 1

\* C6: DELETE on an existing category removes the category and every product
\* of that category.
C6_CategoryCascade ==
    [][last'.op = "delete_category" =>
         \A c \in CategoryIds :
            (delete_category(c) /\ first(categories, c) # {})
            => /\ first(categories', c) = {}
               /\ \A p \in products : p.category_id = c => first(products', p.id) = {}]_vars

\* C7: each delete handler answers 404 and changes nothing when the id is
\* absent, and removes the row and answers with a success status when the id
\* exists.
C7_DeleteResponds ==
    [][/\ \A o \in OrderIds : delete_order(o) /\ last'.op = "delete_order" =>
            IF first(orders, o) = {}
            THEN last'.status = 404 /\ UNCHANGED store
            ELSE first(orders', o) = {} /\ last'.status \in {200, 204}
       /\ \A p \in ProductIds : delete_product(p) /\ last'.op = "delete_product" =>
            IF first(products, p) = {}
            THEN last'.status = 404 /\ UNCHANGED store
            ELSE first(products', p) = {} /\ last'.status \in {200, 204}
       /\ \A c \in ClientIds : delete_client(c) /\ last'.op = "delete_client" =>
            IF first(clients, c) = {}
            THEN last'.status = 404 /\ UNCHANGED store
            ELSE first(clients', c) = {} /\ last'.status \in {200, 204}]_vars

\* C8: every order has exactly one client and at least one order_products row.
C8_OrderHasClientAndProduct ==
    \A o \in orders :
        /\ Cardinality(first(clients, o.client_id)) = 1
        /\ \E op \in order_products : op[1] = o.id

====
